---------------------------- MODULE Spec2Model ----------------------------
(***************************************************************************)
(* Model of the React dashboard of the telemetry application: the Dashboard *)
(* component (Dashboard.jsx: playback effect, view tabs, history, report    *)
(* download) and the parts of App.jsx that feed it.                         *)
(*                                                                          *)
(* One step of the model is one browser task: a handler or timer callback   *)
(* together with the React render and the effects that the state change     *)
(* causes.  The closure that setInterval keeps alive is state of its own    *)
(* (interval), so that what a tick reads is what the effect captured.       *)
(***************************************************************************)
EXTENDS Integers, Sequences, FiniteSets, TLC

\* ------------------------------------------------------------------ bounds
\* ticks modelled since the last reset of the stream buffer
MaxTicks == 22
\* longest equipment_data list replayed by the playback model
MaxPlaybackRecords == 2
\* the clock labels of the samples repeat with this period
ClockPeriod == 3
\* longest equipment_data list given to the views
MaxRecords == 6
\* longest history list the server answers with
MaxHistory == 3
\* history requests in flight at one time
MaxCalls == 2
\* invocations of handleDownloadReport in one run
MaxReports == 1
\* invocations of handleDeleteDataset in one run
MaxDeletes == 2
\* invocations of handleUpload in one run
MaxUploads == 2
\* ticks since the last reset while the operations of the Dashboard run
MaxBuffered == 1

\* ------------------------------------------------------- program constants
\* "if (newData.length > 20) newData.shift()"
RealtimeCap == 20
\* ".slice(0, 5)" of the watchlist
WatchlistSize == 5
\* ".slice(0, 20)" of the pressure/flow line
TrendCap == 20
\* "e.health_score < 50 ?"
CriticalBelow == 50
\* "response.data.size < 500"
SmallBlob == 500

\* the name of a sample that carries none
UNDEFINED == "undefined"

\* the ids of the tab list, and the id the simulation effect waits for
TabIds == {"overview", "analytics", "comparison", "history"}
RealtimeTab == "realtime"

\* ------------------------------------------------------------- input data
\* EquipmentRecord values as the upload endpoint returns them
Equipment(n, f, p, t, h) ==
    [name |-> n, flowrate |-> f, pressure |-> p, temperature |-> t, health_score |-> h]

EquipmentPool ==
    << Equipment("E1", 41, 11, 61, 10),
       Equipment("E2", 42, 12, 62, 90),
       Equipment("E3", 43, 13, 63, 5),
       Equipment("E4", 44, 14, 64, 50),
       Equipment("E5", 45, 15, 65, 10),
       Equipment("E6", 46, 16, 66, 30) >>

Range(s) == { s[i] : i \in 1..Len(s) }

\* the sequences over S without repetition, of length at most n
RECURSIVE SeqsNoRep(_, _)
SeqsNoRep(S, n) ==
    IF n = 0 THEN { <<>> }
    ELSE LET shorter == SeqsNoRep(S, n - 1)
         IN  shorter \cup
             UNION { { Append(s, e) : e \in S \ Range(s) } :
                     s \in { x \in shorter : Len(x) = n - 1 } }

\* a Dataset Snapshot: the object the upload endpoint returned
Dataset(i, eq) == [id |-> i, equipment_data |-> eq]

\* currentUpload = null (useState(null)); dataset ids of the server start at 1
NoUpload == Dataset(0, <<>>)

\* a HistoryEntry of GET datasets/history/; uploaded_at is the instant that
\* new Date(h.uploaded_at) denotes, counted in hours
HistoryEntry(i, at, n, h, f, p) ==
    [id |-> i, uploaded_at |-> at, total_equipment |-> n,
     avg_health_score |-> h, avg_flowrate |-> f, avg_pressure |-> p]

HistoryPool ==
    { HistoryEntry(1, 50, 3, 71, 41, 11),
      HistoryEntry(2, 30, 6, 72, 42, 12),
      HistoryEntry(3, 50, 2, 73, 43, 13),
      HistoryEntry(4, 55, 1, 74, 44, 14) }

\* ---------------------------------------------------------- Array helpers
\* Array.prototype.slice(0, n)
Slice(s, n) == SubSeq(s, 1, IF Len(s) < n THEN Len(s) ELSE n)

\* Array.prototype.map
Map(s, F(_)) == [i \in 1..Len(s) |-> F(s[i])]


\* --------------------------------------------------------- View Aggregator
\* equipment_data.sort((a, b) => a.health_score - b.health_score):
\* Array.prototype.sort is stable; the array is sorted in place and returned.
\* variant: an unstable sort that puts the later of two equal scores first
RECURSIVE SortByHealthUnstable(_)
SortByHealthUnstable(s) ==
    IF Len(s) <= 1 THEN s
    ELSE LET init == SortByHealthUnstable(SubSeq(s, 1, Len(s) - 1))
             e    == s[Len(s)]
             k    == Cardinality({ i \in 1..Len(init) : init[i].health_score < e.health_score })
         IN  SubSeq(init, 1, k) \o <<e>> \o SubSeq(init, k + 1, Len(init))

RECURSIVE SortByHealth(_)
SortByHealth(s) ==
    IF Len(s) <= 1 THEN s
    ELSE LET init == SortByHealth(SubSeq(s, 1, Len(s) - 1))
             e    == s[Len(s)]
             k    == Cardinality({ i \in 1..Len(init) : init[i].health_score <= e.health_score })
         IN  SubSeq(init, 1, k) \o <<e>> \o SubSeq(init, k + 1, Len(init))

RiskColour(e) ==
    IF e.health_score < CriticalBelow THEN "rgba(239, 68, 68, 0.7)"
                                      ELSE "rgba(245, 158, 11, 0.7)"
NameOf(e) == e.name
HealthOf(e) == e.health_score
PressureOf(e) == e.pressure
FlowOf(e) == e.flowrate

\* the Bar of the watchlist: labels, data and backgroundColor are three
\* expressions, each sorting the same array again before it slices it
WatchlistBar(eq) ==
    LET s1 == SortByHealth(eq)
        s2 == SortByHealth(s1)
        s3 == SortByHealth(s2)
    IN  [ labels          |-> Map(Slice(s1, WatchlistSize), NameOf),
          data            |-> Map(Slice(s2, WatchlistSize), HealthOf),
          backgroundColor |-> Map(Slice(s3, WatchlistSize), RiskColour),
          array           |-> s3 ]

\* the Line "Pressure vs Flow Overview", evaluated on the array as it is
\* when the JSX reaches it
TrendLine(eq) ==
    [ labels   |-> Map(Slice(eq, TrendCap), NameOf),
      pressure |-> Map(Slice(eq, TrendCap), PressureOf),
      flow     |-> Map(Slice(eq, TrendCap), FlowOf) ]

\* [...history].sort((a, b) => new Date(a.uploaded_at) - new Date(b.uploaded_at)):
\* a stable sort of a copy
\* variant: the comparator is reversed
RECURSIVE SortByDateDescending(_)
SortByDateDescending(s) ==
    IF Len(s) <= 1 THEN s
    ELSE LET init == SortByDateDescending(SubSeq(s, 1, Len(s) - 1))
             e    == s[Len(s)]
             k    == Cardinality({ i \in 1..Len(init) : init[i].uploaded_at >= e.uploaded_at })
         IN  SubSeq(init, 1, k) \o <<e>> \o SubSeq(init, k + 1, Len(init))

RECURSIVE SortByDate(_)
SortByDate(s) ==
    IF Len(s) <= 1 THEN s
    ELSE LET init == SortByDate(SubSeq(s, 1, Len(s) - 1))
             e    == s[Len(s)]
             k    == Cardinality({ i \in 1..Len(init) : init[i].uploaded_at <= e.uploaded_at })
         IN  SubSeq(init, 1, k) \o <<e>> \o SubSeq(init, k + 1, Len(init))

\* new Date(h.uploaded_at).toLocaleDateString(): the day, without the time
DateLabel(h) == h.uploaded_at \div 24
AvgHealthOf(h) == h.avg_health_score
AvgFlowOf(h) == h.avg_flowrate
AvgPressureOf(h) == h.avg_pressure

NoTrend == [labels |-> <<>>, health |-> <<>>, flow |-> <<>>, pressure |-> <<>>]

\* variant: history.sort(...) without the copy
SortedCopyInPlace(hist) == [sorted |-> SortByDate(hist), history |-> SortByDate(hist)]

\* [...history].sort(...): the sorted copy, and the array it was copied from
SortedCopy(hist) == [sorted |-> SortByDate(hist), history |-> hist]

\* ComparisonTab: the empty state, or the two Line charts over sortedHistory
ComparisonTab(hist) ==
    IF Len(hist) = 0 THEN NoTrend
    ELSE LET sortedHistory == SortedCopy(hist).sorted
         IN  [ labels   |-> Map(sortedHistory, DateLabel),
               health   |-> Map(sortedHistory, AvgHealthOf),
               flow     |-> Map(sortedHistory, AvgFlowOf),
               pressure |-> Map(sortedHistory, AvgPressureOf) ]

NoBar == [labels |-> <<>>, data |-> <<>>, backgroundColor |-> <<>>]
NoLine == [labels |-> <<>>, pressure |-> <<>>, flow |-> <<>>]

\* OverviewTab: the element renderContent returns for 'overview' and for
\* every id its switch does not name
OverviewTab(data) ==
    LET bar == WatchlistBar(data.equipment_data)
    IN  [ screen     |-> "overview",
          watchlist  |-> [labels |-> bar.labels, data |-> bar.data,
                          backgroundColor |-> bar.backgroundColor],
          trend      |-> TrendLine(bar.array),
          comparison |-> NoTrend,
          data       |-> [data EXCEPT !.equipment_data = bar.array] ]

\* the element of a screen that reads neither array
Plain(name) ==
    [screen |-> name, watchlist |-> NoBar, trend |-> NoLine, comparison |-> NoTrend]

\* what the Dashboard shows for the tab, and the dataset object after the
\* render has run over it
Render(tab, data, hist) ==
    IF data = NoUpload /\ tab # "history"
    THEN [el |-> Plain("prompt"), data |-> data, history |-> hist]
    ELSE IF tab = "comparison"
    THEN [el |-> [Plain(IF Len(hist) = 0 THEN "comparison-empty" ELSE "comparison")
                    EXCEPT !.comparison = ComparisonTab(hist)],
          data |-> data,
          history |-> IF Len(hist) = 0 THEN hist ELSE SortedCopy(hist).history]
    ELSE IF tab \in {"analytics", "history"}
    THEN [el |-> Plain(tab), data |-> data, history |-> hist]
    ELSE LET o == OverviewTab(data)
         IN  [el |-> [screen |-> o.screen, watchlist |-> o.watchlist,
                      trend |-> o.trend, comparison |-> o.comparison],
              data |-> o.data, history |-> hist]

\* ------------------------------------------------------------------ state
VARIABLES
    mounted,        \* the Dashboard element is in the tree
    uploadData,     \* props.uploadData (App's currentUpload)
    activeTab,      \* useState('overview')
    isSimulating,   \* useState(true)
    realtimeData,   \* useState([])
    playbackIndex,  \* useState(0)
    interval,       \* the timer of the simulation effect and what its closure captured
    now,            \* the clock reading that new Date() returns
    view,           \* what the last render put on the screen
    received,       \* history variable: the dataset as the server returned it
    arrivals,       \* history variable: the samples appended since the last reset
    replaced,       \* history variable: the dataset arrived while the timer was running
    history,        \* useState([])
    historyCalls,   \* the api.get('datasets/history/') promises not yet settled
    served,         \* history variable: res.data of the last answer that was stored
    reports,        \* the invocations of handleDownloadReport, in the order of the calls
    isDownloading,  \* useState(false) of the OverviewTab on the screen
    deletes,        \* the invocations of handleDeleteDataset, in the order of the calls
    lastRefresh,    \* history variable: how the last fetchHistory that settled ended
    selected,       \* history variable: the id passed to the last setActiveTab
    user,           \* App: useState(null), the name of the user who is logged in
    appActiveTab,   \* App: useState('dashboard'), the page that App shows
    upload,         \* the Upload component on the page: its loading and error
    uploads,        \* the invocations of handleUpload, in the order of the calls
    localStorage,   \* the items flowdrishti_user and flowdrishti_token
    authorization,  \* api.defaults.headers.common['Authorization']
    server,         \* the datasets that the server holds, as its history lists them
    snapshots,      \* the history answers the server has computed, not yet delivered
    unhandled       \* the operations whose promise rejected with nothing to catch it

historyVars == << history, historyCalls, served >>
reportVars == << reports, isDownloading >>
appVars == << user, appActiveTab, upload, uploads, localStorage, authorization >>
outsideVars == << server, snapshots, unhandled >>
\* the state of the Dashboard and of what it has started
dashboardVars ==
    << mounted, activeTab, isSimulating, realtimeData, playbackIndex, interval,
       now, view, arrivals, replaced, historyVars, reportVars, deletes,
       lastRefresh, selected >>

vars == << mounted, uploadData, activeTab, isSimulating, realtimeData,
           playbackIndex, interval, now, view, received, arrivals, replaced,
           historyVars, reportVars, deletes, lastRefresh, selected,
           appVars, outsideVars >>

\* App: user = null; an absent item of localStorage; an absent header
NoUser == "null"
NoItem == "null"
NoHeader == "undefined"
Users == {"alice", "bob"}
\* the token that auth/login/ answers with, and the header setAuthToken makes of it
TokenOf(u) == "token of " \o u
HeaderOf(token) == "Token " \o token

\* the Upload component: none on the page, or one with useState(false) and
\* useState(null)
NoUploadForm == [shown |-> FALSE, loading |-> FALSE, error |-> "null"]
NewUploadForm == [shown |-> TRUE, loading |-> FALSE, error |-> "null"]

\* App with u logged in and the dashboard page selected, no upload under way
LoggedIn(u) ==
    /\ user = u
    /\ appActiveTab = "dashboard"
    /\ upload = NoUploadForm
    /\ uploads = <<>>
    /\ localStorage = [flowdrishti_user |-> u, flowdrishti_token |-> TokenOf(u)]
    /\ authorization = HeaderOf(TokenOf(u))

\* the OverviewTab that awaits an invocation has left the screen: its state is
\* gone and what it still sets is ignored
Disown(rs) == [k \in 1..Len(rs) |-> [rs[k] EXCEPT !.owner = FALSE]]
KeepsOverview(before, after) == before.screen = "overview" /\ after.screen = "overview"

NoInterval == [armed |-> FALSE, uploadData |-> NoUpload, playbackIndex |-> 0]

Screen(r) == r.el
Unmounted == Plain("none")

\* ----------------------------------------------------- simulation effect
\* useEffect(..., [activeTab, isSimulating, uploadData, playbackIndex]):
\* when a dependency changed the cleanup clears the old interval and the
\* effect sets a new one whose callback closes over the values of this render
(* variants used to test the sensitivity of the properties below *)
\* the cleanup is missing: a timer once set keeps running
SimulationEffectNoCleanup(old, changed, tab, sim, data, idx) ==
    IF ~changed THEN old
    ELSE IF tab = RealtimeTab /\ sim
         THEN [armed |-> TRUE, uploadData |-> data, playbackIndex |-> idx]
         ELSE old

\* playbackIndex is missing from the dependency list: a running timer keeps
\* the index its closure captured
SimulationEffectStaleIndex(old, changed, tab, sim, data, idx) ==
    IF ~changed THEN old
    ELSE IF tab = RealtimeTab /\ sim
         THEN [armed |-> TRUE, uploadData |-> data,
               playbackIndex |-> IF old.armed /\ old.uploadData = data
                                 THEN old.playbackIndex ELSE idx]
         ELSE [armed |-> FALSE, uploadData |-> NoUpload, playbackIndex |-> 0]

SimulationEffect(old, changed, tab, sim, data, idx) ==
    IF ~changed THEN old
    ELSE IF tab = RealtimeTab /\ sim
         THEN [armed |-> TRUE, uploadData |-> data, playbackIndex |-> idx]
         ELSE NoInterval

\* the sample the updater builds from what the closure captured
HasRealData(data) == data # NoUpload /\ Len(data.equipment_data) > 0

PlaybackPoint(data, idx, t) ==
    LET dataItem == data.equipment_data[(idx % Len(data.equipment_data)) + 1]
    IN  [time |-> t, flow |-> dataItem.flowrate, pressure |-> dataItem.pressure,
         temp |-> dataItem.temperature, name |-> dataItem.name]

\* Math.random() is drawn from RandomDraws; 45 + r * 10, 8 + r * 4, 58 + r * 5
RandomDraws == {0}
FallbackPoint(r, t) ==
    [time |-> t, flow |-> 45 + r * 10, pressure |-> 8 + r * 4, temp |-> 58 + r * 5,
     name |-> UNDEFINED]

\* const newData = [...prev, newPoint]; if (newData.length > 20) newData.shift()
\* variant: pop() instead of shift()
KeepOldest(prev, newPoint) ==
    LET newData == Append(prev, newPoint)
    IN  IF Len(newData) > RealtimeCap THEN SubSeq(newData, 1, Len(newData) - 1)
                                      ELSE newData

Keep(prev, newPoint) ==
    LET newData == Append(prev, newPoint)
    IN  IF Len(newData) > RealtimeCap THEN Tail(newData) ELSE newData

\* setPlaybackIndex(idx => idx + 1)
\* variant: the updater runs twice for one tick
AdvanceTwice(idx) == idx + 2

Advance(idx) == idx + 1


\* "Reset simulation when new data is uploaded": if (uploadData) { ... }
\* variant: the reset effect has no guard
ResetBufferAlways(data, buf) == <<>>

ResetBuffer(data, buf) == IF data # NoUpload THEN <<>> ELSE buf
\* variant: the reset effect forgets the index
ResetIndexKept(data, idx) == idx

ResetIndex(data, idx) == IF data # NoUpload THEN 0 ELSE idx

\* ---------------------------------------------------------------- actions
\* setActiveTab(t), the render of the tab and the effects of that render
\* variant: without a dataset only 'history' can be selected
SetActiveTabGuarded(t) ==
    /\ mounted
    /\ t # activeTab
    /\ LET to == IF uploadData = NoUpload /\ t # "history" THEN activeTab ELSE t
           r  == Render(to, uploadData, history)
       IN  /\ activeTab' = to
           /\ uploadData' = r.data
           /\ view' = Screen(r)
           /\ interval' = SimulationEffect(interval, TRUE, to, isSimulating,
                                           r.data, playbackIndex)
           /\ history' = r.history
    /\ isDownloading' = FALSE
    /\ reports' = Disown(reports)
    /\ selected' = t
    /\ UNCHANGED << appVars, outsideVars, deletes, lastRefresh,
                    mounted, isSimulating, realtimeData, playbackIndex, now,
                    received, arrivals, replaced, historyCalls, served >>

SetActiveTab(t) ==
    /\ mounted
    /\ t # activeTab
    /\ LET r == Render(t, uploadData, history)
       IN  /\ activeTab' = t
           /\ uploadData' = r.data
           /\ view' = Screen(r)
           /\ interval' = SimulationEffect(interval, TRUE, t, isSimulating,
                                           r.data, playbackIndex)
           /\ history' = r.history
    /\ isDownloading' = FALSE
    /\ reports' = Disown(reports)
    /\ selected' = t
    /\ UNCHANGED << appVars, outsideVars, deletes, lastRefresh,
                    mounted, isSimulating, realtimeData, playbackIndex, now,
                    received, arrivals, replaced, historyCalls, served >>

\* setIsSimulating(b)
SetIsSimulating(b) ==
    /\ mounted
    /\ b # isSimulating
    /\ isSimulating' = b
    /\ interval' = SimulationEffect(interval, TRUE, activeTab, b,
                                    uploadData, playbackIndex)
    /\ UNCHANGED << appVars, outsideVars, deletes, lastRefresh, selected,
                    mounted, uploadData, activeTab, realtimeData, playbackIndex,
                    now, view, received, arrivals, replaced, historyVars, reportVars >>

\* the parent renders the mounted Dashboard with a new uploadData object:
\* render, then the reset effect and the simulation effect, then the render
\* of the state the reset effect set
DashboardRerenders(d, calls) ==
    /\ mounted
    /\ LET r   == Render(activeTab, d, history)
           idx == ResetIndex(d, playbackIndex)
       IN  /\ uploadData' = r.data
           /\ view' = Screen(r)
           /\ realtimeData' = ResetBuffer(d, realtimeData)
           /\ playbackIndex' = idx
           /\ interval' = SimulationEffect(interval, TRUE, activeTab, isSimulating,
                                           r.data, idx)
    /\ received' = d
    /\ arrivals' = IF d # NoUpload THEN <<>> ELSE arrivals
    /\ replaced' = (d # NoUpload /\ interval.armed /\ realtimeData # <<>>)
    /\ history' = Render(activeTab, d, history).history
    /\ LET kept == KeepsOverview(view, Screen(Render(activeTab, d, history)))
       IN  /\ isDownloading' = (kept /\ isDownloading)
           /\ reports' = IF kept THEN reports ELSE Disown(reports)
    /\ historyCalls' = calls
    /\ UNCHANGED << deletes, lastRefresh, selected,
                    mounted, activeTab, isSimulating, now, served >>

\* the same, with the api of the playback harness, whose requests stay pending
\* and are not counted
NewUploadData(d) ==
    DashboardRerenders(d, historyCalls) /\ UNCHANGED << appVars, outsideVars >>

\* the callback of setInterval: the updater of setRealtimeData, the updater
\* of setPlaybackIndex it queues, and the render and effects that follow
Tick ==
    /\ mounted
    /\ interval.armed
    /\ Len(arrivals) < MaxTicks
    /\ \E rnd \in RandomDraws :
         LET data     == interval.uploadData
             real     == HasRealData(data)
             newPoint == IF real THEN PlaybackPoint(data, interval.playbackIndex, now)
                                 ELSE FallbackPoint(rnd, now)
             idx      == IF real THEN Advance(playbackIndex) ELSE playbackIndex
             r        == Render(activeTab, uploadData, history)
         IN  /\ realtimeData' = Keep(realtimeData, newPoint)
             /\ playbackIndex' = idx
             /\ arrivals' = Append(arrivals, newPoint)
             /\ uploadData' = r.data
             /\ view' = Screen(r)
             /\ interval' = SimulationEffect(interval, idx # playbackIndex, activeTab,
                                             isSimulating, r.data, idx)
    /\ now' = (now + 1) % ClockPeriod
    /\ history' = Render(activeTab, uploadData, history).history
    /\ UNCHANGED << appVars, outsideVars, deletes, lastRefresh, selected,
                    mounted, activeTab, isSimulating, received, replaced,
                    historyCalls, served, reportVars >>

\* the Dashboard leaves the tree: the cleanup of the simulation effect runs
\* and the state of the component is discarded
DashboardUnmounts ==
    /\ mounted
    /\ mounted' = FALSE
    /\ interval' = NoInterval
    /\ activeTab' = "overview"
    /\ isSimulating' = TRUE
    /\ realtimeData' = <<>>
    /\ playbackIndex' = 0
    /\ view' = Unmounted
    /\ arrivals' = <<>>
    /\ replaced' = FALSE
    /\ history' = <<>>
    /\ served' = <<>>
    /\ isDownloading' = FALSE
    /\ reports' = Disown(reports)
    /\ selected' = "overview"
    /\ lastRefresh' = "none"
    /\ UNCHANGED << deletes, now, historyCalls >>

\* the same, while App keeps its state
Unmount ==
    DashboardUnmounts /\ UNCHANGED << appVars, outsideVars, uploadData, received >>

\* the Dashboard enters the tree with uploadData = d: initial state, first
\* render, effects; calls is the number of history requests in flight once the
\* effect of line 28 ran
DashboardMounts(d, calls) ==
    /\ ~mounted
    /\ mounted' = TRUE
    /\ LET r == Render("overview", d, <<>>)
       IN  /\ uploadData' = r.data
           /\ view' = Screen(r)
           /\ interval' = SimulationEffect(NoInterval, TRUE, "overview", TRUE, r.data, 0)
    /\ historyCalls' = calls
    /\ UNCHANGED << deletes, lastRefresh, selected,
                    activeTab, isSimulating, realtimeData, playbackIndex, now,
                    arrivals, replaced, history, served, reportVars >>

MountWith(d, calls) == DashboardMounts(d, calls) /\ UNCHANGED << appVars, outsideVars >>

\* the Dashboard enters the tree with the currentUpload that App holds
MountDashboard(calls) == MountWith(uploadData, calls) /\ UNCHANGED received

\* fetchHistory, after the await: setHistory(res.data) and the render.  A
\* Dashboard that has left the tree ignores the update.
SetHistory(h) ==
    /\ historyCalls > 0
    /\ historyCalls' = historyCalls - 1
    /\ IF mounted
       THEN LET r == Render(activeTab, uploadData, h)
            IN  /\ history' = r.history
                /\ served' = h
                /\ uploadData' = r.data
                /\ view' = Screen(r)
       ELSE UNCHANGED << history, served, uploadData, view >>
    /\ lastRefresh' = IF mounted THEN "stored" ELSE "ignored"
    /\ UNCHANGED << appVars, deletes, selected,
                    mounted, activeTab, isSimulating, realtimeData, playbackIndex,
                    interval, now, received, arrivals, replaced, reportVars >>

\* the same, whatever list the answer carries
HistoryResolves(h) == SetHistory(h) /\ UNCHANGED outsideVars

\* fetchHistory, the catch: console.error("Failed to fetch history")
\* variant: the catch empties the list
HistoryRejectsClears ==
    /\ historyCalls > 0
    /\ historyCalls' = historyCalls - 1
    /\ lastRefresh' = "failed"
    /\ history' = <<>>
    /\ UNCHANGED << appVars, outsideVars,
                    deletes, selected, mounted, uploadData, activeTab, isSimulating,
                    realtimeData, playbackIndex, interval, now, view, received,
                    arrivals, replaced, served, reportVars >>

\* variant: fetchHistory has no catch, and nothing awaits its promise
HistoryRejectsUncaught ==
    /\ historyCalls > 0
    /\ historyCalls' = historyCalls - 1
    /\ unhandled' = unhandled \cup {"fetchHistory"}
    /\ UNCHANGED << appVars, server, snapshots, deletes, selected, lastRefresh,
                    mounted, uploadData, activeTab, isSimulating, realtimeData,
                    playbackIndex, interval, now, view, received, arrivals,
                    replaced, history, served, reportVars >>

HistoryRejects ==
    /\ historyCalls > 0
    /\ historyCalls' = historyCalls - 1
    /\ lastRefresh' = "failed"
    /\ UNCHANGED << appVars, outsideVars, deletes, selected,
                    mounted, uploadData, activeTab, isSimulating, realtimeData,
                    playbackIndex, interval, now, view, received, arrivals,
                    replaced, history, served, reportVars >>

\* ------------------------------------------------- the playback harness
\* The Dashboard on its own, driven through its props and state setters.  The
\* tab list offers no 'realtime' id and nothing calls setIsSimulating, so the
\* harness makes those two calls itself; the parent may hand over a new
\* dataset, or none, while the Dashboard is mounted.
PlaybackPool == { EquipmentPool[i] : i \in 1..3 }
PlaybackDatasets ==
    { Dataset(1, eq) : eq \in SeqsNoRep(PlaybackPool, MaxPlaybackRecords) }

InitDashboard ==
    /\ mounted = TRUE
    /\ uploadData = NoUpload
    /\ activeTab = "overview"
    /\ isSimulating = TRUE
    /\ realtimeData = <<>>
    /\ playbackIndex = 0
    /\ interval = NoInterval
    /\ now = 0
    /\ view = Screen(Render("overview", NoUpload, <<>>))
    /\ received = NoUpload
    /\ arrivals = <<>>
    /\ replaced = FALSE
    /\ history = <<>>
    /\ historyCalls = 0
    /\ served = <<>>
    /\ reports = <<>>
    /\ isDownloading = FALSE
    /\ deletes = <<>>
    /\ lastRefresh = "none"
    /\ selected = "overview"
    /\ LoggedIn("alice")
    /\ server = <<>>
    /\ snapshots = <<>>
    /\ unhandled = {}

\* the api of the harness leaves every request pending; they are not counted
Mount == MountDashboard(historyCalls)
SelectTab == \E t \in TabIds : SetActiveTab(t)
SelectRealtime == SetActiveTab(RealtimeTab)
TogglePlayback == \E b \in BOOLEAN : SetIsSimulating(b)
ReplaceDataset == \E d \in PlaybackDatasets : NewUploadData(d)
ClearDataset == uploadData # NoUpload /\ NewUploadData(NoUpload)

NextRealtime ==
    \/ SelectTab
    \/ SelectRealtime
    \/ TogglePlayback
    \/ ReplaceDataset
    \/ ClearDataset
    \/ Tick
    \/ Unmount
    \/ Mount

SpecRealtime == InitDashboard /\ [][NextRealtime]_vars

\* ------------------------------------------------- the views of a dataset
\* App has stored the answer of the upload as currentUpload and is about to
\* render the Dashboard with it; the user then walks through the tabs.
ViewDatasets ==
    { Dataset(1, eq) : eq \in SeqsNoRep(Range(EquipmentPool), MaxRecords) }

InitWith(Datasets, stored) ==
    /\ mounted = FALSE
    /\ uploadData \in Datasets
    /\ received = uploadData
    /\ activeTab = "overview"
    /\ isSimulating = TRUE
    /\ realtimeData = <<>>
    /\ playbackIndex = 0
    /\ interval = NoInterval
    /\ now = 0
    /\ view = Unmounted
    /\ arrivals = <<>>
    /\ replaced = FALSE
    /\ history = <<>>
    /\ historyCalls = 0
    /\ served = <<>>
    /\ reports = <<>>
    /\ isDownloading = FALSE
    /\ deletes = <<>>
    /\ lastRefresh = "none"
    /\ selected = "overview"
    /\ LoggedIn("alice")
    /\ server = stored
    /\ snapshots = <<>>
    /\ unhandled = {}

\* the same, in a model that leaves out what the server stores
InitUploaded(Datasets) == InitWith(Datasets, <<>>)

\* <Dashboard uploadData={currentUpload} /> is rendered; fetchHistory() starts
Open == historyCalls < MaxCalls /\ MountDashboard(historyCalls + 1)

\* a click on a tab button, or on "View History" of the prompt
ClickTab ==
    \E t \in TabIds :
        /\ view.screen # "prompt" \/ t = "history"
        /\ SetActiveTab(t)

InitViews == InitUploaded(ViewDatasets)
NextViews == Open \/ ClickTab
SpecViews == InitViews /\ [][NextViews]_vars

\* ------------------------------------------------- the history trend
HistoryLists == SeqsNoRep(HistoryPool, MaxHistory)
TrendDatasets == { NoUpload, Dataset(1, << EquipmentPool[2], EquipmentPool[1] >>) }

Answer == \E h \in HistoryLists : HistoryResolves(h)
Close == Unmount

InitTrend == InitUploaded(TrendDatasets)
NextTrend == Open \/ ClickTab \/ Answer \/ HistoryRejects \/ Close
SpecTrend == InitTrend /\ [][NextTrend]_vars

\* ------------------------------------------------- the tabs of the Dashboard
\* The Dashboard of an uploaded dataset is rendered and the user goes on
\* selecting tabs while history requests settle: every tab button on the
\* screen is clicked at some time.
TabDatasets == { Dataset(2, << EquipmentPool[3] >>) }
ClickOn(t) == ClickTab /\ activeTab' = t

InitTabs == InitUploaded(TabDatasets)
NextTabs == Open \/ ClickTab \/ Answer \/ HistoryRejects
SpecTabs ==
    /\ InitTabs /\ [][NextTabs]_vars
    /\ WF_vars(Open)
    /\ \A t \in TabIds : WF_vars(ClickOn(t))

\* ------------------------------------------------------ Report Retriever
\* response.data.type of the Blob, its size, and what JSON.parse makes of its
\* text: an object with an error field, an object whose error field is the
\* empty string, an object without one, another JSON value that has properties
\* (a number, a string, true), null, or a SyntaxError
ContentTypes == {"application/json", "application/pdf", "text/html"}
BlobSizes == {499, 500, 10000}
BlobTexts == {"{error}", "{error: ''}", "{}", "scalar", "null", "not json"}
\* the texts that JSON.parse accepts
JsonTexts == {"{error}", "{error: ''}", "{}", "scalar", "null"}
\* err.response.status of a rejected request; 0 stands for no err.response
ErrorStatuses == {0, 404, 500}
ServerMessage == "failed"

\* `Analysis_Report_#${id}.pdf`
FileName(id) == << "Analysis_Report_#", id, ".pdf" >>
\* `Report Error: ${errObj.error || "Generation failed on server."}`
ReportError(text) ==
    << "Report Error: ",
       IF text = "{error}" THEN ServerMessage ELSE "Generation failed on server." >>
\* "Failed to download report." and, with err.response, the status
\* variant: the status is left out
DownloadFailedNoStatus(status) == << "Failed to download report." >>

DownloadFailed(status) ==
    IF status # 0
    THEN << "Failed to download report.", " (Server Status: ", status, ")" >>
    ELSE << "Failed to download report." >>

\* variant: the comparison includes the threshold
PossiblyInlineErrorUpTo(ctype, size) == ctype = "application/json" \/ size <= SmallBlob

\* response.data.type === 'application/json' || response.data.size < 500
PossiblyInlineError(ctype, size) == ctype = "application/json" \/ size < SmallBlob

\* the try block of reader.onload throws: JSON.parse a SyntaxError, or
\* errObj.error a TypeError when errObj is null
\* variant: nothing throws
TryBlockNeverThrows(text) == FALSE

TryBlockThrows(text) == text \in {"null", "not json"}

\* the calls on window.URL, document.body and the link, in program order: of
\* the catch of reader.onload, of the binary save, and of its setTimeout callback
\* variant: the URL is revoked before the click
SaveNowRevokedEarly ==
    << "createObjectURL", "appendChild", "revokeObjectURL", "click", "removeChild" >>

SaveNow ==
    << "createObjectURL", "appendChild", "click", "removeChild", "revokeObjectURL" >>
SaveAndDefer == << "createObjectURL", "appendChild", "click" >>
\* variant: the callback removes the link and forgets the URL
DeferredCleanupKeepsUrl == << "removeChild" >>

DeferredCleanup == << "removeChild", "revokeObjectURL" >>

\* the object URL of an invocation, read off the calls it has made
UrlOf(calls) ==
    IF \E i \in 1..Len(calls) : calls[i] = "revokeObjectURL" THEN "revoked"
    ELSE IF \E i \in 1..Len(calls) : calls[i] = "createObjectURL" THEN "created"
    ELSE "none"

\* handleDownloadReport(id) has been called and awaits api.get
NewReport(id, awaited) ==
    [ id |-> id, owner |-> awaited, pc |-> "request", settled |-> FALSE,
      ctype |-> "", size |-> 0, text |-> "", failed |-> FALSE, status |-> 0,
      saved |-> <<>>, alert |-> <<>>, calls |-> <<>>, url |-> "none" ]

\* the promise of handleDownloadReport settles: handleDownloadClick, if its
\* OverviewTab is still there, goes on to setIsDownloading(false)
\* variant: handleDownloadClick ends at the await
AfterAwaitStuck(r) == isDownloading

AfterAwait(r) == IF r.owner THEN FALSE ELSE isDownloading

\* handleDownloadClick of the overview: the button is disabled while
\* isDownloading
DownloadClick ==
    /\ mounted
    /\ view.screen = "overview"
    /\ ~isDownloading
    /\ Len(reports) < MaxReports
    /\ isDownloading' = TRUE
    /\ reports' = Append(reports, NewReport(uploadData.id, TRUE))
    /\ UNCHANGED << appVars, outsideVars, deletes, lastRefresh, selected,
                    mounted, uploadData, activeTab, isSimulating, realtimeData,
                    playbackIndex, interval, now, view, received, arrivals,
                    replaced, historyVars >>

\* onDownload(h.id) of a row of the history table
RowDownload ==
    /\ mounted
    /\ view.screen = "history"
    /\ Len(reports) < MaxReports
    /\ \E i \in 1..Len(history) :
          reports' = Append(reports, NewReport(history[i].id, FALSE))
    /\ UNCHANGED << appVars, outsideVars, deletes, lastRefresh, selected,
                    mounted, uploadData, activeTab, isSimulating, realtimeData,
                    playbackIndex, interval, now, view, received, arrivals,
                    replaced, historyVars, isDownloading >>

\* api.get resolved with a Blob: either the FileReader is started and the
\* function returns, or the link is clicked and the cleanup timer is set
ReportResolves(k, ctype, size) ==
    /\ reports[k].pc = "request"
    /\ LET r == [reports[k] EXCEPT !.ctype = ctype, !.size = size, !.settled = TRUE]
           q == IF PossiblyInlineError(ctype, size)
                THEN [r EXCEPT !.pc = "reading"]
                ELSE [r EXCEPT !.pc = "cleanup", !.calls = SaveAndDefer,
                               !.url = UrlOf(SaveAndDefer),
                               !.saved = FileName(r.id)]
       IN  /\ reports' = [reports EXCEPT ![k] = q]
           /\ isDownloading' = AfterAwait(r)
    /\ UNCHANGED << appVars, outsideVars, deletes, lastRefresh, selected,
                    mounted, uploadData, activeTab, isSimulating, realtimeData,
                    playbackIndex, interval, now, view, received, arrivals,
                    replaced, historyVars >>

\* api.get rejected: the catch of handleDownloadReport
ReportRejects(k, status) ==
    /\ reports[k].pc = "request"
    /\ LET r == [reports[k] EXCEPT !.settled = TRUE, !.pc = "done",
                                   !.failed = TRUE, !.status = status,
                                   !.alert = DownloadFailed(status)]
       IN  /\ reports' = [reports EXCEPT ![k] = r]
           /\ isDownloading' = AfterAwait(r)
    /\ UNCHANGED << appVars, outsideVars, deletes, lastRefresh, selected,
                    mounted, uploadData, activeTab, isSimulating, realtimeData,
                    playbackIndex, interval, now, view, received, arrivals,
                    replaced, historyVars >>

\* reader.onload: JSON.parse(reader.result) and the alert, or, when the try
\* block throws (a SyntaxError, or the TypeError of null.error), the save
ReaderLoads(k, text) ==
    /\ reports[k].pc = "reading"
    /\ LET r == reports[k]
       IN  reports' = [reports EXCEPT ![k] =
              IF TryBlockThrows(text)
              THEN [r EXCEPT !.text = text, !.pc = "done", !.calls = SaveNow,
                             !.url = UrlOf(SaveNow), !.saved = FileName(r.id)]
              ELSE [r EXCEPT !.text = text, !.pc = "done", !.alert = ReportError(text)]]
    /\ UNCHANGED << appVars, outsideVars, deletes, lastRefresh, selected,
                    mounted, uploadData, activeTab, isSimulating, realtimeData,
                    playbackIndex, interval, now, view, received, arrivals,
                    replaced, historyVars, isDownloading >>

\* the FileReader fires its error event instead of load: no handler is set
\* for it, so nothing follows readAsText
ReaderFails(k) ==
    /\ reports[k].pc = "reading"
    /\ reports' = [reports EXCEPT ![k].pc = "done"]
    /\ UNCHANGED << appVars, outsideVars, deletes, lastRefresh, selected,
                    mounted, uploadData, activeTab, isSimulating, realtimeData,
                    playbackIndex, interval, now, view, received, arrivals,
                    replaced, historyVars, isDownloading >>

\* the callback of setTimeout(..., 200): the link is removed, the URL revoked
CleanupTimer(k) ==
    /\ reports[k].pc = "cleanup"
    /\ LET calls == reports[k].calls \o DeferredCleanup
       IN  reports' = [reports EXCEPT ![k].pc = "done", ![k].calls = calls,
                                      ![k].url = UrlOf(calls)]
    /\ UNCHANGED << appVars, outsideVars, deletes, lastRefresh, selected,
                    mounted, uploadData, activeTab, isSimulating, realtimeData,
                    playbackIndex, interval, now, view, received, arrivals,
                    replaced, historyVars, isDownloading >>

\* the Dashboard of one uploaded dataset, a history of two entries on the
\* server, and the report endpoint answering in every way it can
ReportDatasets == { Dataset(1, << EquipmentPool[2], EquipmentPool[1] >>) }
ReportHistory ==
    { << HistoryEntry(2, 55, 1, 74, 44, 14), HistoryEntry(1, 50, 2, 71, 41, 11) >> }

AnswerReportHistory == \E h \in ReportHistory : HistoryResolves(h)
BlobArrives ==
    \E k \in 1..Len(reports), ctype \in ContentTypes, size \in BlobSizes :
        ReportResolves(k, ctype, size)
RequestFails ==
    \E k \in 1..Len(reports), status \in ErrorStatuses : ReportRejects(k, status)
TextRead == \E k \in 1..Len(reports), text \in BlobTexts : ReaderLoads(k, text)
ReadFails == \E k \in 1..Len(reports) : ReaderFails(k)
TimerFires == \E k \in 1..Len(reports) : CleanupTimer(k)

InitReport == InitUploaded(ReportDatasets)
NextReport ==
    \/ Open
    \/ ClickTab
    \/ AnswerReportHistory
    \/ DownloadClick
    \/ RowDownload
    \/ BlobArrives
    \/ RequestFails
    \/ TextRead
    \/ ReadFails
    \/ TimerFires
SpecReport == InitReport /\ [][NextReport]_vars

\* the browser settles every request, ends every read of a FileReader that
\* was started with its load or its error event, and runs the callback of a
\* timer that was set and never cleared
SpecReportLive ==
    /\ SpecReport
    /\ WF_vars(BlobArrives \/ RequestFails)
    /\ WF_vars(TextRead \/ ReadFails)
    /\ WF_vars(TimerFires)

\* ---------------------------------------------------------- History Store
\* alert("Failed to delete dataset. Please try again.")
DeleteFailed == << "Failed to delete dataset. Please try again." >>

\* handleDeleteDataset(id) up to its await: window.confirm answered ok; the
\* function has returned, or api.delete has been called
\* variant: the answer of window.confirm is not looked at
ConfirmDeleteIgnored(id, ok) ==
    [ id |-> id, confirmed |-> ok, requested |-> TRUE, pc |-> "request",
      outcome |-> "none", refreshes |-> 0, alert |-> <<>> ]

ConfirmDelete(id, ok) ==
    IF ~ok
    THEN [ id |-> id, confirmed |-> FALSE, requested |-> FALSE, pc |-> "done",
           outcome |-> "none", refreshes |-> 0, alert |-> <<>> ]
    ELSE [ id |-> id, confirmed |-> TRUE, requested |-> TRUE, pc |-> "request",
           outcome |-> "none", refreshes |-> 0, alert |-> <<>> ]

\* onDelete(h.id) of a row of the history table
DeleteClick(i, ok) ==
    /\ mounted
    /\ view.screen = "history"
    /\ i \in 1..Len(history)
    /\ Len(deletes) < MaxDeletes
    /\ deletes' = Append(deletes, ConfirmDelete(history[i].id, ok))
    /\ UNCHANGED << appVars, outsideVars,
                    lastRefresh, selected, mounted, uploadData, activeTab,
                    isSimulating, realtimeData, playbackIndex, interval, now, view,
                    received, arrivals, replaced, historyVars, reportVars >>

\* api.delete resolved: fetchHistory() is called and not awaited
DeleteFulfils(k) ==
    /\ deletes[k].pc = "request"
    /\ historyCalls < MaxCalls
    /\ deletes' = [deletes EXCEPT ![k].pc = "done", ![k].outcome = "deleted",
                                  ![k].refreshes = deletes[k].refreshes + 1]
    /\ historyCalls' = historyCalls + 1
    /\ UNCHANGED << appVars,
                    lastRefresh, selected, mounted, uploadData, activeTab,
                    isSimulating, realtimeData, playbackIndex, interval, now, view,
                    received, arrivals, replaced, history, served, reportVars >>

\* the same, whatever the server holds
DeleteResolves(k) == DeleteFulfils(k) /\ UNCHANGED outsideVars

\* api.delete rejected: the catch of handleDeleteDataset
\* variant: the catch only logs
DeleteRejectsSilently(k) ==
    /\ deletes[k].pc = "request"
    /\ deletes' = [deletes EXCEPT ![k].pc = "done", ![k].outcome = "failed"]
    /\ UNCHANGED << appVars, outsideVars,
                    lastRefresh, selected, mounted, uploadData, activeTab,
                    isSimulating, realtimeData, playbackIndex, interval, now, view,
                    received, arrivals, replaced, historyVars, reportVars >>

DeleteRejects(k) ==
    /\ deletes[k].pc = "request"
    /\ deletes' = [deletes EXCEPT ![k].pc = "done", ![k].outcome = "failed",
                                  ![k].alert = DeleteFailed]
    /\ UNCHANGED << appVars, outsideVars,
                    lastRefresh, selected, mounted, uploadData, activeTab,
                    isSimulating, realtimeData, playbackIndex, interval, now, view,
                    received, arrivals, replaced, historyVars, reportVars >>

\* the Dashboard with and without a dataset, the history endpoint answering
\* with lists of up to two entries or failing, and the user deleting rows
StoreLists == SeqsNoRep({ e \in HistoryPool : e.id \in {1, 2} }, 2)

AnswerStore == \E h \in StoreLists : HistoryResolves(h)
Delete == \E i \in 1..2, ok \in BOOLEAN : DeleteClick(i, ok)
DeleteSucceeds == \E k \in 1..Len(deletes) : DeleteResolves(k)
DeleteFails == \E k \in 1..Len(deletes) : DeleteRejects(k)

InitHistory == InitUploaded(TrendDatasets)
NextHistory ==
    \/ Open
    \/ ClickTab
    \/ AnswerStore
    \/ HistoryRejects
    \/ Delete
    \/ DeleteSucceeds
    \/ DeleteFails
    \/ Close
SpecHistory == InitHistory /\ [][NextHistory]_vars

\* ------------------------------------------------- the store of the server
\* The server holds the datasets that its history lists.  It computes the
\* answer to a history request from what it holds at that time; the answers
\* travel on their own and arrive in any order.  A delete request removes the
\* dataset on the server before its answer arrives.
RemoveAt(s, i) == SubSeq(s, 1, i - 1) \o SubSeq(s, i + 1, Len(s))
WithoutId(list, id) == SelectSeq(list, LAMBDA e : e.id # id)
IdsOf(list) == { list[i].id : i \in 1..Len(list) }

\* the server answers one of the history requests that it has not answered yet
ServerReads ==
    /\ Len(snapshots) < historyCalls
    /\ snapshots' = Append(snapshots, server)
    /\ UNCHANGED << appVars, server, unhandled, dashboardVars, uploadData, received >>

\* an answer of the server arrives: fetchHistory goes on after its await
Deliver(i) ==
    /\ i \in 1..Len(snapshots)
    /\ SetHistory(snapshots[i])
    /\ snapshots' = RemoveAt(snapshots, i)
    /\ UNCHANGED << server, unhandled >>

\* the server deletes the dataset and api.delete resolves; a dataset that the
\* server does not hold is answered with an error
ServerDeletes(k) ==
    /\ k \in 1..Len(deletes)
    /\ deletes[k].pc = "request"
    /\ IF deletes[k].id \in IdsOf(server)
       THEN /\ DeleteFulfils(k)
            /\ server' = WithoutId(server, deletes[k].id)
            /\ UNCHANGED << snapshots, unhandled >>
       ELSE DeleteRejects(k)

HistoryArrives == \E i \in 1..Len(snapshots) : Deliver(i)
DeleteIsServed == \E k \in 1..Len(deletes) : ServerDeletes(k)
DeleteAnyRow == \E i \in 1..Len(history) : DeleteClick(i, TRUE)

InitStore == \E h \in ReportHistory : InitWith(ReportDatasets, h)
NextStore ==
    \/ Open
    \/ ClickTab
    \/ ServerReads
    \/ HistoryArrives
    \/ DeleteAnyRow
    \/ DeleteIsServed
SpecStore == InitStore /\ [][NextStore]_vars

\* ------------------------------------------ the playback and the operations
\* The Dashboard of the playback harness with a dataset and a history of two
\* entries: while samples are in the buffer the user selects tabs, deletes
\* rows and fetches reports, history requests settle, the parent hands over a
\* dataset or takes the Dashboard out of the tree.
TickBuffered == Len(arrivals) < MaxBuffered /\ Tick
HandOver == \E d \in ReportDatasets : NewUploadData(d)
DeleteRow == realtimeData # <<>> /\ DeleteClick(1, TRUE)
FetchReport == realtimeData # <<>> /\ RowDownload
ReportArrives ==
    \E k \in 1..Len(reports) : ReportResolves(k, "application/pdf", SmallBlob)

InitPlayback == InitUploaded(ReportDatasets)
NextPlayback ==
    \/ Open
    \/ Close
    \/ ClickTab
    \/ SelectRealtime
    \/ TickBuffered
    \/ HandOver
    \/ ClearDataset
    \/ AnswerReportHistory
    \/ DeleteRow
    \/ DeleteSucceeds
    \/ FetchReport
    \/ ReportArrives
SpecPlayback == InitPlayback /\ [][NextPlayback]_vars

\* ------------------------------------------------- the session of a user
\* App as a whole: the login screen, the Dashboard, the upload page behind the
\* button of the prompt, "Sign Out", and a reload of the page.
SessionDatasets ==
    { Dataset(1, << EquipmentPool[2], EquipmentPool[1] >>),
      Dataset(2, << EquipmentPool[3] >>) }
SessionHistory == ReportHistory \cup { <<>> }

\* a rejected datasets/upload/: what the catch of handleUpload finds in err
UploadFailures == {"data.error", "data.detail", "data", "message", "nothing"}
\* variant: the catch finds no message
UploadMessageNone(failure) == "null"

\* the msg of the catch
UploadMessage(failure) ==
    CASE failure = "data.error"  -> "err.response.data.error"
      [] failure = "data.detail" -> "err.response.data.detail"
      [] failure = "data"        -> "JSON.stringify(err.response.data)"
      [] failure = "message"     -> "err.message"
      [] OTHER                   -> "Upload failed. Ensure valid CSV."

\* handleUpload has been called with a file and awaits api.post
NewUpload ==
    [ owner |-> TRUE, pc |-> "request", outcome |-> "none",
      data |-> NoUpload, logged |-> FALSE, message |-> "null" ]

\* the Upload component that started an invocation has left the page
DisownUploads(us) == [k \in 1..Len(us) |-> [us[k] EXCEPT !.owner = FALSE]]

\* the page before anything is stored in the browser
InitSession ==
    /\ mounted = FALSE
    /\ uploadData = NoUpload
    /\ received = NoUpload
    /\ activeTab = "overview"
    /\ isSimulating = TRUE
    /\ realtimeData = <<>>
    /\ playbackIndex = 0
    /\ interval = NoInterval
    /\ now = 0
    /\ view = Unmounted
    /\ arrivals = <<>>
    /\ replaced = FALSE
    /\ history = <<>>
    /\ historyCalls = 0
    /\ served = <<>>
    /\ reports = <<>>
    /\ isDownloading = FALSE
    /\ deletes = <<>>
    /\ lastRefresh = "none"
    /\ selected = "overview"
    /\ user = NoUser
    /\ appActiveTab = "dashboard"
    /\ upload = NoUploadForm
    /\ uploads = <<>>
    /\ localStorage = [flowdrishti_user |-> NoItem, flowdrishti_token |-> NoItem]
    /\ authorization = NoHeader
    /\ server = <<>>
    /\ snapshots = <<>>
    /\ unhandled = {}

\* handleLogin, after the await: setAuthToken(token), setUser, the item
\* flowdrishti_user, setActiveTab('dashboard'); the Dashboard is rendered with
\* the currentUpload that App holds
Login(u) ==
    /\ user = NoUser
    /\ historyCalls < MaxCalls
    /\ user' = u
    /\ localStorage' = [flowdrishti_user |-> u, flowdrishti_token |-> TokenOf(u)]
    /\ authorization' = HeaderOf(TokenOf(u))
    /\ appActiveTab' = "dashboard"
    /\ DashboardMounts(uploadData, historyCalls + 1)
    /\ UNCHANGED << upload, uploads, received, outsideVars >>

\* handleLogout: setUser(null), setCurrentUpload(null), setAuthToken(null),
\* removeItem('flowdrishti_user'), setActiveTab('dashboard')
Logout ==
    /\ user # NoUser
    /\ user' = NoUser
    /\ uploadData' = NoUpload
    /\ received' = NoUpload
    /\ localStorage' = [flowdrishti_user |-> NoItem, flowdrishti_token |-> NoItem]
    /\ authorization' = NoHeader
    /\ appActiveTab' = "dashboard"
    /\ upload' = NoUploadForm
    /\ uploads' = DisownUploads(uploads)
    /\ IF mounted THEN DashboardUnmounts ELSE UNCHANGED dashboardVars
    /\ UNCHANGED outsideVars

\* onReqUpload: App's setActiveTab('upload') takes the Dashboard out of the
\* tree and puts a new Upload on the page
ReqUpload ==
    /\ view.screen = "prompt"
    /\ DashboardUnmounts
    /\ appActiveTab' = "upload"
    /\ upload' = NewUploadForm
    /\ UNCHANGED << user, uploads, localStorage, authorization, outsideVars,
                    uploadData, received >>

\* "Back to Dashboard": App's setActiveTab('dashboard')
BackToDashboard ==
    /\ user # NoUser
    /\ appActiveTab = "upload"
    /\ historyCalls < MaxCalls
    /\ DashboardMounts(uploadData, historyCalls + 1)
    /\ appActiveTab' = "dashboard"
    /\ upload' = NoUploadForm
    /\ uploads' = DisownUploads(uploads)
    /\ UNCHANGED << user, localStorage, authorization, outsideVars, received >>

\* handleUpload up to its await: the button is disabled while loading
StartUpload ==
    /\ upload.shown
    /\ ~upload.loading
    /\ Len(uploads) < MaxUploads
    /\ upload' = [upload EXCEPT !.loading = TRUE]
    /\ uploads' = Append(uploads, NewUpload)
    /\ UNCHANGED << user, appActiveTab, localStorage, authorization, outsideVars,
                    uploadData, received, dashboardVars >>

\* api.post resolved: onUploadSuccess(response.data) is setCurrentUpload(data)
\* and setActiveTab('dashboard').  With a user logged in the Dashboard is
\* rendered with the data: one that is on the page gets a new prop, otherwise
\* one is mounted in place of the Upload.
UploadFulfils(k, d) ==
    /\ uploads[k].pc = "request"
    /\ appActiveTab' = "dashboard"
    /\ received' = d
    /\ upload' = NoUploadForm
    /\ uploads' = [DisownUploads(uploads) EXCEPT ![k].pc = "done",
                                                 ![k].outcome = "fulfilled",
                                                 ![k].data = d]
    /\ IF user = NoUser
       THEN uploadData' = d /\ UNCHANGED dashboardVars
       ELSE /\ historyCalls < MaxCalls
            /\ IF mounted THEN DashboardRerenders(d, historyCalls + 1)
                          ELSE DashboardMounts(d, historyCalls + 1)
    /\ UNCHANGED << user, localStorage, authorization, outsideVars >>

\* api.post rejected: console.error(err), setError(msg) and, in the finally,
\* setLoading(false); an Upload that has left the page ignores both
UploadRejects(k, failure) ==
    /\ uploads[k].pc = "request"
    /\ uploads' = [uploads EXCEPT ![k].pc = "done", ![k].outcome = "rejected",
                                  ![k].logged = TRUE,
                                  ![k].message = UploadMessage(failure)]
    /\ upload' = IF uploads[k].owner
                 THEN [upload EXCEPT !.loading = FALSE, !.error = UploadMessage(failure)]
                 ELSE upload
    /\ UNCHANGED << user, appActiveTab, localStorage, authorization, outsideVars,
                    uploadData, received, dashboardVars >>

\* the page is loaded again: every component starts anew and what was in
\* flight is dropped; api.js takes the header from the stored token, and the
\* effect of App restores the user when both items are stored
PageLoad ==
    LET savedUser  == localStorage.flowdrishti_user
        savedToken == localStorage.flowdrishti_token
        restored   == savedUser # NoItem /\ savedToken # NoItem
    IN  /\ authorization' = IF savedToken # NoItem THEN HeaderOf(savedToken)
                                                   ELSE NoHeader
        /\ user' = IF restored THEN savedUser ELSE NoUser
        /\ appActiveTab' = "dashboard"
        /\ uploadData' = NoUpload
        /\ received' = NoUpload
        /\ upload' = NoUploadForm
        /\ uploads' = [k \in 1..Len(uploads) |->
                         IF uploads[k].pc = "request"
                         THEN [uploads[k] EXCEPT !.owner = FALSE, !.pc = "done",
                                                 !.outcome = "dropped"]
                         ELSE uploads[k]]
        /\ mounted' = restored
        /\ activeTab' = "overview"
        /\ isSimulating' = TRUE
        /\ realtimeData' = <<>>
        /\ playbackIndex' = 0
        /\ interval' = NoInterval
        /\ view' = IF restored THEN Screen(Render("overview", NoUpload, <<>>))
                               ELSE Unmounted
        /\ arrivals' = <<>>
        /\ replaced' = FALSE
        /\ history' = <<>>
        /\ served' = <<>>
        /\ historyCalls' = IF restored THEN 1 ELSE 0
        /\ isDownloading' = FALSE
        /\ reports' = Disown(reports)
        /\ selected' = "overview"
        /\ lastRefresh' = "none"
        /\ UNCHANGED << localStorage, deletes, now, outsideVars >>

AnswerSession == \E h \in SessionHistory : HistoryResolves(h)
SignIn == \E u \in Users : Login(u)
UploadArrives ==
    \E k \in 1..Len(uploads), d \in SessionDatasets : UploadFulfils(k, d)
UploadFails ==
    \E k \in 1..Len(uploads), failure \in UploadFailures : UploadRejects(k, failure)

NextSession ==
    \/ SignIn
    \/ Logout
    \/ PageLoad
    \/ ClickTab
    \/ AnswerSession
    \/ HistoryRejects
    \/ ReqUpload
    \/ BackToDashboard
    \/ StartUpload
    \/ UploadArrives
    \/ UploadFails
SpecSession == InitSession /\ [][NextSession]_vars

\* ---------------------------------------------- the four network operations
\* A user logs in without a dataset; history requests, report downloads of
\* the rows of the history view, the delete of a row and an upload from the
\* upload page each succeed or fail.
StartOneUpload == uploads = <<>> /\ StartUpload
DeleteFirstRow == deletes = <<>> /\ DeleteClick(1, TRUE)
ReportAnswers ==
    \E k \in 1..Len(reports), ctype \in {"application/json", "application/pdf"} :
        ReportResolves(k, ctype, SmallBlob)
ReportIsRead == \E k \in 1..Len(reports), text \in {"{error}", "not json"} :
    ReaderLoads(k, text)
SignInAlice == user = NoUser /\ Login("alice")
UploadAnswers ==
    \E k \in 1..Len(uploads), d \in ReportDatasets : UploadFulfils(k, d)
UploadIsRefused ==
    \E k \in 1..Len(uploads), failure \in {"data.error", "nothing"} :
        UploadRejects(k, failure)
ReportIsRefused == \E k \in 1..Len(reports) : ReportRejects(k, 500)
ViewHistory == SetActiveTab("history")

NextOperations ==
    \/ SignInAlice
    \/ ViewHistory
    \/ AnswerReportHistory
    \/ HistoryRejects
    \/ DeleteFirstRow
    \/ DeleteSucceeds
    \/ DeleteFails
    \/ RowDownload
    \/ ReportAnswers
    \/ ReportIsRefused
    \/ ReportIsRead
    \/ ReadFails
    \/ ReqUpload
    \/ BackToDashboard
    \/ StartOneUpload
    \/ UploadAnswers
    \/ UploadIsRefused
SpecOperations == InitSession /\ [][NextOperations]_vars

\* ------------------------------------------------------------ properties
Min(a, b) == IF a < b THEN a ELSE b
LastN(s, n) == SubSeq(s, Len(s) - n + 1, Len(s))
Playing == mounted /\ activeTab = RealtimeTab /\ isSimulating
\* a step that is a tick: the clock reading of the next sample moved on
Ticked == now' # now
NamesOf(data) == { data.equipment_data[i].name : i \in 1..Len(data.equipment_data) }
RealSamples(s) == Cardinality({ i \in 1..Len(s) : s[i].name # UNDEFINED })

\* C1: the stream buffer never holds more than 20 samples, and it holds
\* exactly the most recent min(20, n) of the n samples appended since the last
\* reset, oldest first.
C1_BufferIsRecentWindow ==
    /\ Len(realtimeData) <= 20
    /\ realtimeData = LastN(arrivals, Min(20, Len(arrivals)))

\* C1 witness: more than 20 samples arrived, the oldest were evicted and the
\* buffer holds samples that differ from one another.
C1_Witness ==
    /\ Len(arrivals) > 20
    /\ Len(realtimeData) = 20
    /\ realtimeData[1] # realtimeData[2]
    /\ realtimeData[1] # arrivals[1]

\* C2: once a dataset has replaced the active one while the timer was
\* running, the buffer holds only samples appended after the replacement, the
\* index counts from 0 the records consumed after it, every sample comes from
\* the new dataset, and the running timer has captured the new dataset and
\* the reset index.
C2_ReplacementResetsPlayback ==
    replaced =>
        /\ realtimeData = LastN(arrivals, Min(20, Len(arrivals)))
        /\ playbackIndex = RealSamples(arrivals)
        /\ \A i \in 1..Len(arrivals) :
              arrivals[i].name \in NamesOf(received) \cup {UNDEFINED}
        /\ received.equipment_data # <<>> => RealSamples(arrivals) = Len(arrivals)
        /\ interval.armed =>
              /\ interval.playbackIndex = playbackIndex
              /\ interval.uploadData = uploadData
              /\ uploadData.id = received.id

\* C2 witness: a dataset replaced another in mid-playback and a tick has
\* fired since.
C2_Witness ==
    /\ replaced
    /\ interval.armed
    /\ arrivals # <<>>
    /\ Len(received.equipment_data) > 1

\* C3: a timer exists only while the Dashboard is mounted with the realtime
\* view selected and playback enabled; every tick happens in such a state, and
\* outside of it the buffer and the index change only by being reset.
C3_TicksOnlyWhilePlaying ==
    /\ [](~Playing => ~interval.armed)
    /\ [][Ticked => Playing]_vars
    /\ [][(~Playing /\ ~Playing') =>
             /\ realtimeData' \in {realtimeData, <<>>}
             /\ playbackIndex' \in {playbackIndex, 0}]_vars

\* C3 witness: ticks have filled the buffer and the realtime view was left
\* afterwards.
C3_Witness ==
    /\ mounted
    /\ activeTab \in TabIds
    /\ realtimeData # <<>>
    /\ playbackIndex > 0

\* C4: a tick that appended a replayed record advanced the index by exactly
\* one; a tick that appended a synthetic sample (no dataset, or an empty
\* equipment_data) left it unchanged; no other step increases it.
C4_IndexAdvancesOnRealDataOnly ==
    [][ /\ Ticked =>
             /\ arrivals' = Append(arrivals, arrivals'[Len(arrivals')])
             /\ IF uploadData = NoUpload \/ uploadData.equipment_data = <<>>
                THEN /\ arrivals'[Len(arrivals')].name = UNDEFINED
                     /\ playbackIndex' = playbackIndex
                ELSE /\ arrivals'[Len(arrivals')].name # UNDEFINED
                     /\ playbackIndex' = playbackIndex + 1
        /\ ~Ticked => playbackIndex' \in {playbackIndex, 0} ]_vars

\* C4 witness: replayed records were followed by synthetic samples, and the
\* index still counts the replayed ones only.
C4_Witness ==
    /\ playbackIndex > 0
    /\ playbackIndex < Len(arrivals)
    /\ arrivals[1].name # UNDEFINED
    /\ arrivals[Len(arrivals)].name = UNDEFINED

\* C5 as stated: with N >= 1 records the playback index lies in 0..N-1.
C5_IndexBelowLength ==
    (uploadData # NoUpload /\ uploadData.equipment_data # <<>>) =>
        playbackIndex \in 0..(Len(uploadData.equipment_data) - 1)

\* C5 as amended: with N >= 1 records the stored index is the number n of
\* records consumed since the last reset, and the position the next tick
\* reads is n mod N.
C5_PositionWraps ==
    (uploadData # NoUpload /\ uploadData.equipment_data # <<>>) =>
        /\ playbackIndex = Len(arrivals)
        /\ interval.armed =>
              interval.playbackIndex % Len(interval.uploadData.equipment_data)
                  = Len(arrivals) % Len(uploadData.equipment_data)

\* C5 witness: the replay has gone round a dataset of two records more than
\* once and the timer is running.
C5_Witness ==
    /\ uploadData # NoUpload
    /\ Len(uploadData.equipment_data) = 2
    /\ Len(arrivals) > 4
    /\ interval.armed

\* C6 as stated: a render leaves its inputs as they were: the equipment_data
\* of the active dataset holds the records in the order the server sent them,
\* and the stored history is the list the server answered with.
C6_RenderKeepsInput ==
    /\ uploadData.equipment_data = received.equipment_data
    /\ history = served

\* the place in s of the record called n
PlaceOf(s, n) == CHOOSE k \in 1..Len(s) : s[k].name = n

\* C7: the watchlist lists the min(5, N) records of lowest health_score,
\* ascending, ties in the order in which the server sent them, and label,
\* score and colour of one position come from one record.
C7_WatchlistLowestFive ==
    view.screen = "overview" =>
        LET recv  == received.equipment_data
            w     == view.watchlist
            n     == Len(w.labels)
            at(i) == PlaceOf(recv, w.labels[i])
        IN  /\ n = Min(5, Len(recv))
            /\ Len(w.data) = n
            /\ Len(w.backgroundColor) = n
            /\ \A i \in 1..n :
                  /\ w.labels[i] \in NamesOf(received)
                  /\ w.data[i] = recv[at(i)].health_score
                  /\ w.backgroundColor[i] =
                        IF recv[at(i)].health_score < 50
                        THEN "rgba(239, 68, 68, 0.7)" ELSE "rgba(245, 158, 11, 0.7)"
            /\ \A i, j \in 1..n :
                  i < j => \/ w.data[i] < w.data[j]
                           \/ w.data[i] = w.data[j] /\ at(i) < at(j)
            /\ \A k \in 1..Len(recv) :
                  (\A i \in 1..n : at(i) # k) =>
                      \A i \in 1..n :
                          \/ w.data[i] < recv[k].health_score
                          \/ w.data[i] = recv[k].health_score /\ at(i) < k

\* C7 witness: the overview of six records that arrived unsorted, with two
\* equal scores among the five listed.
C7_Witness ==
    /\ view.screen = "overview"
    /\ Len(received.equipment_data) = 6
    /\ received.equipment_data[1].health_score > received.equipment_data[2].health_score
    /\ \E i \in 1..4 : view.watchlist.data[i] = view.watchlist.data[i + 1]

\* C8 as stated: the pressure/flow line shows the first min(20, N) records in
\* the order in which the server sent them.
C8_TrendInReceivedOrder ==
    view.screen = "overview" =>
        LET recv == received.equipment_data
            n    == Min(20, Len(recv))
        IN  /\ Len(view.trend.labels) = n
            /\ Len(view.trend.pressure) = n
            /\ Len(view.trend.flow) = n
            /\ \A i \in 1..n :
                  /\ view.trend.labels[i] = recv[i].name
                  /\ view.trend.pressure[i] = recv[i].pressure
                  /\ view.trend.flow[i] = recv[i].flowrate

\* the bijections of 1..n
Bijections(n) == { p \in [1..n -> 1..n] : \A i, j \in 1..n : p[i] = p[j] => i = j }

\* C9: for a non-empty history the trend view has one label per entry and
\* three series of the same length; position by position they show one entry
\* each, in ascending order of uploaded_at; the stored history is the list
\* the server answered with.
C9_HistoryTrendSorted ==
    (mounted /\ activeTab = "comparison" /\ uploadData # NoUpload /\ history # <<>>) =>
        LET c == view.comparison
            n == Len(history)
        IN  /\ view.screen = "comparison"
            /\ Len(c.labels) = n
            /\ Len(c.health) = n
            /\ Len(c.flow) = n
            /\ Len(c.pressure) = n
            /\ \E p \in Bijections(n) :
                  /\ \A i \in 1..n :
                        /\ c.labels[i] = history[p[i]].uploaded_at \div 24
                        /\ c.health[i] = history[p[i]].avg_health_score
                        /\ c.flow[i] = history[p[i]].avg_flowrate
                        /\ c.pressure[i] = history[p[i]].avg_pressure
                  /\ \A i, j \in 1..n :
                        i < j => history[p[i]].uploaded_at <= history[p[j]].uploaded_at
            /\ history = served

\* C9 witness: the trend of a history of three entries that the server sent
\* newest first.
C9_Witness ==
    /\ view.screen = "comparison"
    /\ Len(history) = 3
    /\ history[1].uploaded_at > history[2].uploaded_at
    /\ history[2].uploaded_at > history[3].uploaded_at

\* C10: an invocation whose answer is a Blob of a type other than JSON and of
\* at least 500 bytes has clicked a link that saves Analysis_Report_#<id>.pdf
\* and has shown no alert.
C10_BinaryAnswerIsSaved ==
    \A k \in 1..Len(reports) :
        (reports[k].ctype \in {"application/pdf", "text/html"} /\ reports[k].size >= 500) =>
            /\ reports[k].saved = << "Analysis_Report_#", reports[k].id, ".pdf" >>
            /\ reports[k].alert = <<>>
            /\ reports[k].pc \in {"cleanup", "done"}

\* C10 witness: a PDF of exactly 500 bytes arrived for dataset 2.
C10_Witness ==
    \E k \in 1..Len(reports) :
        /\ reports[k].ctype = "application/pdf"
        /\ reports[k].size = 500
        /\ reports[k].id = 2
        /\ reports[k].saved # <<>>

\* C11 as stated: an invocation whose answer was JSON by type or shorter than
\* 500 bytes, and whose text JSON.parse accepts, has shown "Report Error: "
\* followed by the error field (the generic message when there is none) and has
\* saved nothing.
C11_ParsedJsonIsReported ==
    \A k \in 1..Len(reports) :
        ( /\ reports[k].pc = "done"
          /\ reports[k].ctype = "application/json" \/ reports[k].size < 500
          /\ ~reports[k].failed
          /\ reports[k].text \in {"{error}", "{error: ''}", "{}", "scalar", "null"} ) =>
            /\ reports[k].alert =
                  << "Report Error: ",
                     IF reports[k].text = "{error}" THEN "failed"
                     ELSE IF reports[k].text = "{error: ''}" THEN ""
                     ELSE "Generation failed on server." >>
            /\ reports[k].saved = <<>>
            /\ reports[k].calls = <<>>

\* C12: an invocation whose answer was JSON by type or shorter than 500 bytes,
\* and whose text is not JSON, has saved Analysis_Report_#<id>.pdf and has
\* shown no alert.
C12_UnparsableIsSaved ==
    \A k \in 1..Len(reports) :
        reports[k].text = "not json" =>
            /\ reports[k].ctype = "application/json" \/ reports[k].size < 500
            /\ reports[k].saved = << "Analysis_Report_#", reports[k].id, ".pdf" >>
            /\ \E i \in 1..Len(reports[k].calls) : reports[k].calls[i] = "click"
            /\ reports[k].alert = <<>>

\* C12 witness: a PDF of 499 bytes whose text is not JSON was saved.
C12_Witness ==
    \E k \in 1..Len(reports) :
        /\ reports[k].text = "not json"
        /\ reports[k].ctype = "application/pdf"
        /\ reports[k].size = 499
        /\ reports[k].saved # <<>>

\* C13: an invocation whose request failed has shown "Failed to download
\* report.", followed by the HTTP status when the error carries a response
\* and by nothing otherwise, and has saved nothing.
C13_FailureIsAlerted ==
    \A k \in 1..Len(reports) :
        reports[k].failed =>
            /\ reports[k].alert =
                  IF reports[k].status # 0
                  THEN << "Failed to download report.", " (Server Status: ",
                          reports[k].status, ")" >>
                  ELSE << "Failed to download report." >>
            /\ reports[k].saved = <<>>
            /\ reports[k].calls = <<>>
            /\ reports[k].pc = "done"

\* C13 witness: the report request was answered with status 404.
C13_Witness ==
    \E k \in 1..Len(reports) :
        /\ reports[k].failed
        /\ reports[k].status = 404
        /\ reports[k].alert # <<>>

\* the invocation k has made the call op
Called(k, op) ==
    /\ Len(reports) >= k
    /\ \E i \in 1..Len(reports[k].calls) : reports[k].calls[i] = op

\* C14: the indicator of the overview is set only while a request that its
\* button started is still awaited, and whenever it is set it is cleared
\* later: when the request is answered (saved, read as a possible error, or
\* failed) or when the overview leaves the screen.
C14_IndicatorIsCleared ==
    /\ [](isDownloading =>
            \E k \in 1..Len(reports) : reports[k].owner /\ ~reports[k].settled)
    /\ isDownloading ~> ~isDownloading

\* C14 witness: a download started from the overview was answered with a
\* possible inline error; the indicator is off while the text is still read.
C14_Witness ==
    \E k \in 1..Len(reports) :
        /\ reports[k].owner
        /\ reports[k].settled
        /\ reports[k].pc = "reading"
        /\ ~isDownloading

\* C15: an invocation that created an object URL revokes it later, whether it
\* saved directly or after the text failed to parse, and no URL is revoked
\* before the link that carries it was clicked.
C15_UrlIsRevokedAfterClick ==
    /\ \A k \in 1..MaxReports :
          Called(k, "createObjectURL") ~> Called(k, "revokeObjectURL")
    /\ [](\A k \in 1..Len(reports) :
            LET c == reports[k].calls
            IN  /\ \A i \in 1..Len(c) :
                      c[i] = "revokeObjectURL" =>
                          \E j \in 1..(i - 1) : c[j] = "click"
                /\ \A i \in 1..Len(c) :
                      c[i] = "click" =>
                          \E j \in 1..(i - 1) : c[j] = "createObjectURL")

\* C15 witness: the timer of a direct save has run and revoked the URL.
C15_Witness ==
    \E k \in 1..Len(reports) :
        /\ reports[k].size = 10000
        /\ reports[k].pc = "done"
        /\ reports[k].calls =
              << "createObjectURL", "appendChild", "click",
                 "removeChild", "revokeObjectURL" >>

\* C16: a history request that settles while the Dashboard is mounted either
\* succeeded, and the stored list is then exactly the list of the response, or
\* failed, and the stored list is then exactly the list held before.
C16_RefreshReplacesOrKeeps ==
    [][ historyCalls' < historyCalls =>
          \/ lastRefresh' = "stored" /\ mounted /\ history' = served'
          \/ lastRefresh' = "failed" /\ history' = history
          \/ lastRefresh' = "ignored" /\ ~mounted /\ history' = history ]_vars

\* C16 witness: a history request failed while a list of two entries was
\* stored, and the list is still there.
C16_Witness ==
    /\ mounted
    /\ lastRefresh = "failed"
    /\ Len(history) = 2
    /\ history = served

\* C17: a delete request is sent only for an invocation that the user
\* confirmed; an invocation that the user declined ends at once, leaves the
\* stored list and the screen as they are, starts no history request and
\* shows no alert.
C17_DeleteNeedsConfirmation ==
    /\ [](\A k \in 1..Len(deletes) :
            /\ deletes[k].requested => deletes[k].confirmed
            /\ ~deletes[k].confirmed =>
                  /\ deletes[k].pc = "done"
                  /\ deletes[k].outcome = "none"
                  /\ deletes[k].refreshes = 0
                  /\ deletes[k].alert = <<>>)
    /\ [][ ( /\ Len(deletes') > Len(deletes)
             /\ ~deletes'[Len(deletes')].confirmed ) =>
               /\ history' = history
               /\ historyCalls' = historyCalls
               /\ view' = view ]_vars

\* C17 witness: the user declined to delete a row of a list of two entries.
C17_Witness ==
    /\ Len(history) = 2
    /\ \E k \in 1..Len(deletes) : ~deletes[k].confirmed /\ deletes[k].id = 2

\* C18: a confirmed invocation whose delete request succeeded has called
\* fetchHistory once and shown no alert; one whose request failed has shown
\* the alert and called fetchHistory not at all; in both cases the step that
\* settles the request leaves the stored list as it is.
C18_DeleteThenRefreshOrAlert ==
    /\ [](\A k \in 1..Len(deletes) :
            (deletes[k].confirmed /\ deletes[k].pc = "done") =>
                \/ /\ deletes[k].outcome = "deleted"
                   /\ deletes[k].refreshes = 1
                   /\ deletes[k].alert = <<>>
                \/ /\ deletes[k].outcome = "failed"
                   /\ deletes[k].refreshes = 0
                   /\ deletes[k].alert = << "Failed to delete dataset. Please try again." >>)
    /\ [][ \A k \in 1..Len(deletes) :
             (deletes[k].pc = "request" /\ deletes'[k].pc = "done") =>
                 /\ history' = history
                 /\ historyCalls' =
                       IF deletes'[k].outcome = "deleted" THEN historyCalls + 1
                                                          ELSE historyCalls ]_vars

\* C18 witness: of two confirmed deletes one succeeded and one failed.
C18_Witness ==
    \E k, j \in 1..Len(deletes) :
        /\ deletes[k].outcome = "deleted"
        /\ deletes[j].outcome = "failed"
        /\ history # <<>>

\* C19 as stated: the view state is one of overview, analytics, comparison and
\* history, it starts as overview, and within a session (the step is neither
\* "Sign Out" nor a reload of the page) a step that changes it is a tab
\* selection: the Dashboard stays in the tree, and the step is no tick, no
\* answer to a request and no change of the dataset.
C19_TabChangesOnlyBySelection ==
    /\ activeTab = "overview"
    /\ [](activeTab \in {"overview", "analytics", "comparison", "history"})
    /\ [][ (activeTab' # activeTab /\ ~Logout /\ ~PageLoad) =>
             /\ mounted /\ mounted'
             /\ selected' = activeTab'
             /\ now' = now
             /\ historyCalls' = historyCalls
             /\ received' = received ]_vars

\* C20: while the Dashboard is mounted its view state is the id of the last
\* tab selection, with or without a dataset; the prompt is on the screen
\* exactly when there is no dataset and the view state is not history, and
\* without a dataset the history view is still shown.
C20_PromptGuardsDisplayOnly ==
    mounted =>
        /\ activeTab = selected
        /\ view.screen = "prompt" <=> (uploadData = NoUpload /\ activeTab # "history")
        /\ activeTab = "history" => view.screen = "history"

\* C20 witness: without a dataset the user went to the history view and
\* selected the analytics tab there; the view state is analytics and the
\* prompt is shown.
C20_Witness ==
    /\ mounted
    /\ uploadData = NoUpload
    /\ selected = "analytics"
    /\ activeTab = "analytics"
    /\ view.screen = "prompt"

\* ------------------------------------------------------------- the uploads
\* an invocation of handleUpload leaves its await in this step
UploadSettles(k) ==
    /\ k \in 1..Len(uploads)
    /\ uploads[k].pc = "request"
    /\ uploads'[k].pc = "done"

\* C21: an upload that succeeds makes the returned dataset the active one as a
\* whole (its id and all its records) and selects the dashboard page, which is
\* on the screen when a user is logged in; an upload that fails changes
\* neither the active dataset nor the page, is logged, and its message is the
\* error of the upload form when that form is still on the page.
C21_UploadOutcome ==
    [][ \A k \in 1..Len(uploads) : UploadSettles(k) =>
          /\ uploads'[k].outcome = "fulfilled" =>
               /\ received' = uploads'[k].data
               /\ received' \in SessionDatasets
               /\ uploadData'.id = received'.id
               /\ Len(uploadData'.equipment_data) = Len(received'.equipment_data)
               /\ Range(uploadData'.equipment_data) = Range(received'.equipment_data)
               /\ appActiveTab' = "dashboard"
               /\ user # NoUser => mounted' /\ view'.screen # "prompt"
          /\ uploads'[k].outcome = "rejected" =>
               /\ uploadData' = uploadData
               /\ appActiveTab' = appActiveTab
               /\ mounted' = mounted
               /\ uploads'[k].logged
               /\ uploads'[k].message # "null"
               /\ IF uploads[k].owner
                  THEN upload'.shown /\ upload'.error = uploads'[k].message
                  ELSE upload' = upload ]_vars

\* C21 witness: one upload failed with a message, a later one succeeded and
\* its dataset is on the Dashboard.
C21_Witness ==
    \E k, j \in 1..Len(uploads) :
        /\ uploads[k].outcome = "rejected"
        /\ uploads[k].message # "null"
        /\ uploads[j].outcome = "fulfilled"
        /\ uploadData.id = uploads[j].data.id
        /\ mounted
        /\ appActiveTab = "dashboard"

\* C21 as stated: every successful upload puts the dataset on the dashboard
\* and every failed upload sets an error message on the page.
C21_UploadOutcomeAlways ==
    [][ \A k \in 1..Len(uploads) : UploadSettles(k) =>
          /\ uploads'[k].outcome = "fulfilled" =>
               /\ uploadData'.id = uploads'[k].data.id
               /\ appActiveTab' = "dashboard"
               /\ mounted'
          /\ uploads'[k].outcome = "rejected" =>
               /\ uploadData' = uploadData
               /\ appActiveTab' = appActiveTab
               /\ upload'.error = uploads'[k].message ]_vars

\* --------------------------------------------------------------- the logout
\* C29 as stated: whenever no user is logged in (after "Sign Out", from any
\* state, and after any later reload of the page) no dataset is active, no
\* token and no user name are stored, the Authorization header is absent and
\* the login screen is shown in place of the Dashboard and the upload page.
C29_LoggedOutIsClean ==
    user = NoUser =>
        /\ uploadData = NoUpload
        /\ localStorage.flowdrishti_token = NoItem
        /\ localStorage.flowdrishti_user = NoItem
        /\ authorization = NoHeader
        /\ ~mounted
        /\ ~upload.shown

\* ------------------------------------------------------------- the playback
\* C22 as stated: with an active dataset of N >= 1 records, the j-th sample
\* since the last reset carries the flow, pressure, temperature and name of
\* the record at position (j-1) mod N of the dataset in the order received.
C22_ReplayInDatasetOrder ==
    (received # NoUpload /\ received.equipment_data # <<>>) =>
        \A j \in 1..Len(arrivals) :
            LET N        == Len(received.equipment_data)
                dataItem == received.equipment_data[((j - 1) % N) + 1]
            IN  /\ arrivals[j].name = dataItem.name
                /\ arrivals[j].flow = dataItem.flowrate
                /\ arrivals[j].pressure = dataItem.pressure
                /\ arrivals[j].temp = dataItem.temperature

\* ----------------------------------------------- the frame of the playback
\* a step that changes the stream buffer or the playback index
PlaybackChanges == realtimeData' # realtimeData \/ playbackIndex' # playbackIndex
\* a step in which the mounted Dashboard is handed a dataset and resets both
DatasetArrives ==
    /\ mounted /\ mounted'
    /\ received' # NoUpload
    /\ uploadData'.id = received'.id
    /\ realtimeData' = <<>>
    /\ playbackIndex' = 0
\* a step in which the Dashboard leaves the tree and its state is discarded
StateDiscarded == mounted /\ ~mounted' /\ realtimeData' = <<>> /\ playbackIndex' = 0

\* the steps of the operations that the claim lists
TabSelected == mounted /\ mounted' /\ activeTab' # activeTab
HistorySettles == historyCalls' < historyCalls
DeleteActs == deletes' # deletes
ReportActs ==
    \/ Len(reports') > Len(reports)
    \/ \E k \in 1..Len(reports) : reports'[k].pc # reports[k].pc

\* C23: a step that changes the stream buffer or the playback index is a tick,
\* the arrival of a dataset, or the removal of the Dashboard from the tree;
\* selecting a tab, leaving and re-entering the realtime view, a history
\* request or a delete settling, and fetching a report change neither.
C23_PlaybackFrame ==
    [][ /\ PlaybackChanges => Ticked \/ DatasetArrives \/ StateDiscarded
        /\ (TabSelected \/ HistorySettles \/ DeleteActs \/ ReportActs) =>
              ~PlaybackChanges ]_vars

\* C23 witness: with samples in the buffer the user is on the history
\* tab, a delete has succeeded, a report was fetched and a history request
\* has been answered.
C23_Witness ==
    /\ mounted
    /\ activeTab = "history"
    /\ Len(realtimeData) = MaxBuffered
    /\ playbackIndex = MaxBuffered
    /\ \E k \in 1..Len(deletes) : deletes[k].outcome = "deleted"
    /\ \E k \in 1..Len(reports) : reports[k].pc # "request"
    /\ lastRefresh = "stored"

\* C23 as stated: only a tick or the arrival of a dataset changes the stream
\* buffer or the playback index.
C23_OnlyTickOrUpload ==
    [][ PlaybackChanges => Ticked \/ DatasetArrives ]_vars

\* --------------------------------------------------- the outcome of a report
\* C24 as stated: an invocation of handleDownloadReport that has ended has
\* either triggered a file save or shown an alert, never both and never
\* neither; one that has not ended has done neither.
C24_ExactlyOneOutcome ==
    \A k \in 1..Len(reports) :
        IF reports[k].pc \in {"done", "cleanup"}
        THEN (reports[k].saved # <<>>) # (reports[k].alert # <<>>)
        ELSE reports[k].saved = <<>> /\ reports[k].alert = <<>>

\* C27 as stated: when handleDownloadClick sets isDownloading back to false
\* (the promise of its invocation settled in this step), that invocation has
\* already triggered the file save or shown an alert.
C27_ClearedAfterOutcome ==
    [][ \A k \in 1..Len(reports) :
          ( /\ isDownloading /\ ~isDownloading'
            /\ reports[k].owner /\ reports'[k].owner
            /\ reports[k].pc = "request" /\ reports'[k].pc # "request" ) =>
              reports'[k].saved # <<>> \/ reports'[k].alert # <<>> ]_vars

\* ------------------------------------------------- failures of the operations
\* C25: no promise of fetchHistory, handleDeleteDataset, handleDownloadReport
\* or handleUpload rejects; a rejected delete has shown its alert, a rejected
\* report request its alert, a rejected upload is logged and has a message, a
\* rejected history request has run the catch that logs; and when parsing
\* the text of a report payload throws, the file is saved and no alert is
\* shown.
C25_FailuresAreHandled ==
    /\ unhandled = {}
    /\ lastRefresh \in {"none", "stored", "ignored", "failed"}
    /\ \A k \in 1..Len(deletes) :
          deletes[k].outcome = "failed" =>
              deletes[k].pc = "done" /\ deletes[k].alert = DeleteFailed
    /\ \A k \in 1..Len(reports) :
          /\ reports[k].failed =>
                /\ reports[k].pc = "done"
                /\ reports[k].alert = DownloadFailed(reports[k].status)
          /\ (reports[k].text # "" /\ TryBlockThrows(reports[k].text)) =>
                /\ reports[k].pc = "done"
                /\ reports[k].saved = FileName(reports[k].id)
                /\ reports[k].alert = <<>>
    /\ \A k \in 1..Len(uploads) :
          uploads[k].outcome = "rejected" =>
              /\ uploads[k].pc = "done"
              /\ uploads[k].logged
              /\ uploads[k].message # "null"

\* C25 witness: a history request, a delete and an upload were rejected, and
\* the text of a report payload was not JSON.
C25_Witness ==
    /\ lastRefresh = "failed"
    /\ \E k \in 1..Len(deletes) : deletes[k].outcome = "failed"
    /\ \E k \in 1..Len(uploads) : uploads[k].outcome = "rejected"
    /\ \E k \in 1..Len(reports) : reports[k].text = "not json"

\* C25 as stated: no promise rejects, and every rejected request and every
\* exception thrown while the text of a report payload is parsed ends in a log
\* entry, an alert or an error message.
C25_FailuresAreReported ==
    /\ unhandled = {}
    /\ \A k \in 1..Len(deletes) :
          deletes[k].outcome = "failed" => deletes[k].alert # <<>>
    /\ \A k \in 1..Len(reports) :
          /\ reports[k].failed => reports[k].alert # <<>>
          /\ (reports[k].text # "" /\ TryBlockThrows(reports[k].text)) =>
                reports[k].alert # <<>>
    /\ \A k \in 1..Len(uploads) :
          uploads[k].outcome = "rejected" =>
              uploads[k].logged \/ uploads[k].message # "null"

\* ------------------------------------------------------- the realtime view
\* C26 as stated: from the Dashboard of an uploaded dataset the tab
\* selections of the user make 'realtime' the active view.
C26_RealtimeIsSelected == <>(mounted /\ activeTab = RealtimeTab)

\* ------------------------------------------------- deletes and the history
\* C28 as stated: once no history request is in flight, the list on the
\* Dashboard holds no dataset whose delete has succeeded.
C28_DeletedStaysOut ==
    (mounted /\ historyCalls = 0) =>
        \A k \in 1..Len(deletes) :
            deletes[k].outcome = "deleted" => deletes[k].id \notin IdsOf(history)

=============================================================================
